---- MODULE Spec2Model ----
(***************************************************************************)
(* Model of the pool-permit application wizard, src/app/page.tsx           *)
(* (component HomePage): wizard screen/step state, field store, document   *)
(* staging with asynchronous FileReader completions, and the validation    *)
(* round-trip of generateApplication.                                      *)
(***************************************************************************)
EXTENDS Integers, Sequences, FiniteSets, TLC

VARIABLES screen, formStep, loading, validationResult, property, pool,
          documents, fileInputRef, reads, uploads, clock, inflight, outcome

vars == <<screen, formStep, loading, validationResult, property, pool,
          documents, fileInputRef, reads, uploads, clock, inflight, outcome>>

(***************************************************************************)
(* Bounds of the model.                                                    *)
(***************************************************************************)
\* File uploads (dropped or picked files) issued in one run.
MaxUploads == 4
\* Largest value Date.now() takes in one run, counted from the first reading.
MaxClock == 1
\* File uploads issued in one run of the whole wizard (Spec).
MaxWizardUploads == 2

(***************************************************************************)
(* JavaScript values received from the validation service.                 *)
(***************************************************************************)
Undefined == [t |-> "undefined"]

Null == [t |-> "null"]

Str(s) == [t |-> "string", s |-> s]

Obj(o) == [t |-> "object", o |-> o]

\* Boolean(v): JavaScript truthiness
Truthy(v) ==
    CASE v.t = "undefined" -> FALSE
      [] v.t = "null" -> FALSE
      [] v.t = "string" -> v.s # ""
      [] OTHER -> TRUE

\* v.name, and v?.name for a non-nullish v
Get(v, name) ==
    IF v.t = "object" /\ name \in DOMAIN v.o THEN v.o[name] ELSE Undefined

\* a || b
Or(a, b) == IF Truthy(a) THEN a ELSE b

VRFields == {"validation_status", "validation_checklist", "property_summary",
             "pool_summary", "document_status", "missing_items",
             "compliance_notes"}

\* A ValidationResult with the given status and one checklist entry.
MkResult(status) ==
    Obj([validation_status |-> status,
         validation_checklist |-> <<[item |-> "Fence", status |-> "pass"]>>,
         property_summary |-> "property",
         pool_summary |-> "pool",
         document_status |-> "documents",
         missing_items |-> IF status = "complete" THEN <<>> ELSE <<"Site Plan">>,
         compliance_notes |-> <<"note">>])

ResultComplete == MkResult("complete")

ResultIncomplete == MkResult("incomplete")

\* Payloads that do not have the ValidationResult schema.
EmptyObject == Obj([n \in {} |-> Undefined])

PartialResult == Obj([validation_status |-> "complete"])

ErrorText == Str("Internal error")

\* interface ValidationResult
IsValidationResult(v) ==
    /\ v.t = "object"
    /\ DOMAIN v.o = VRFields
    /\ v.o["validation_status"] \in {"complete", "incomplete"}

\* data.response of a reply: absent, falsy, a payload, or { result: payload }
Responses ==
    {Undefined, Str(""), ResultComplete, EmptyObject, ErrorText,
     Obj([result |-> ResultComplete]), Obj([result |-> ResultIncomplete]),
     Obj([result |-> PartialResult]), Obj([result |-> Null])}

\* What `await fetch(...)` followed by `await response.json()` can produce:
\* a thrown exception, or the parsed body `data`.
Replies ==
    {[threw |-> TRUE, success |-> FALSE, response |-> Undefined]}
      \cup {[threw |-> FALSE, success |-> FALSE, response |-> r] :
              r \in {Undefined, Obj([result |-> ResultComplete])}}
      \cup {[threw |-> FALSE, success |-> TRUE, response |-> r] :
              r \in Responses}

(***************************************************************************)
(* Wizard state.                                                           *)
(***************************************************************************)
Screens == {"landing", "form", "results"}

steps == <<"property", "pool", "documents", "review">>

IndexOf(step) == CHOOSE i \in 1..Len(steps) : steps[i] = step

DocTypes == <<"Property Deed", "Site Plan", "Pool Design">>

DocTypeSet == {DocTypes[i] : i \in 1..Len(DocTypes)}

NoInput == "none"

DefaultProperty ==
    [address |-> "123 Oak Street", lotSize |-> "0.5",
     zoning |-> "residential", propertyType |-> "single-family"]

\* A pool seeded without the optional heating type.
DefaultPool_WithoutHeatingType ==
    [poolType |-> "inground", length |-> "20", width |-> "40", depth |-> "8",
     heating |-> FALSE, lighting |-> FALSE, divingBoard |-> FALSE,
     fence |-> TRUE, heatingType |-> ""]

DefaultPool ==
    [poolType |-> "inground", length |-> "20", width |-> "40", depth |-> "8",
     heating |-> FALSE, lighting |-> FALSE, divingBoard |-> FALSE,
     fence |-> TRUE, heatingType |-> "gas"]

\* Files the user picks or drops.
DeedFile == [name |-> "deed.pdf", data |-> "data:pdf"]

PlanFile == [name |-> "plan.png", data |-> "data:png"]

Init ==
    /\ screen = "landing"
    /\ formStep = "property"
    /\ loading = FALSE
    /\ validationResult = Null
    /\ property = DefaultProperty
    /\ pool = DefaultPool
    /\ documents = <<>>
    /\ fileInputRef = NoInput
    /\ reads = {}
    /\ uploads = 0
    /\ clock = 0
    /\ inflight = 0
    /\ outcome = "none"

(***************************************************************************)
(* Field Store.                                                            *)
(***************************************************************************)
\* Values the user types or selects in the property step.
PropertyInputs == {<<"address", "">>, <<"address", "123 Oak Street">>}

\* Values the user types, selects or toggles in the pool step.
PoolInputs == {<<"length", "">>, <<"length", "20">>,
               <<"heating", TRUE>>, <<"heating", FALSE>>}

OnFormStep(step) == screen = "form" /\ formStep = step

\* A property handler reachable from every step of the form.
handlePropertyChange_AnyStep(field, value) ==
    /\ screen = "form"
    /\ property' = [property EXCEPT ![field] = value]
    /\ UNCHANGED <<screen, formStep, loading, validationResult, pool, documents,
                   fileInputRef, reads, uploads, clock, inflight, outcome>>

handlePropertyChange(field, value) ==
    /\ OnFormStep("property")
    /\ property' = [property EXCEPT ![field] = value]
    /\ UNCHANGED <<screen, formStep, loading, validationResult, pool, documents,
                   fileInputRef, reads, uploads, clock, inflight, outcome>>

\* A pool handler reachable from every step of the form.
handlePoolChange_AnyStep(field, value) ==
    /\ screen = "form"
    /\ field = "heatingType" => pool.heating
    /\ pool' = [pool EXCEPT ![field] = value]
    /\ UNCHANGED <<screen, formStep, loading, validationResult, property,
                   documents, fileInputRef, reads, uploads, clock, inflight,
                   outcome>>

handlePoolChange(field, value) ==
    /\ OnFormStep("pool")
    \* the heating type select is rendered only while heating is checked
    /\ field = "heatingType" => pool.heating
    /\ pool' = [pool EXCEPT ![field] = value]
    /\ UNCHANGED <<screen, formStep, loading, validationResult, property,
                   documents, fileInputRef, reads, uploads, clock, inflight,
                   outcome>>

(***************************************************************************)
(* Document Stage.                                                         *)
(***************************************************************************)
Digits == <<"0", "1", "2", "3", "4", "5", "6", "7", "8", "9">>

RECURSIVE toString(_)
\* Number.prototype.toString() of a non-negative integer
toString(n) ==
    IF n < 10 THEN Digits[n + 1]
    ELSE toString(n \div 10) \o Digits[(n % 10) + 1]

\* documents.find((d) => d.type === docType) is defined
HasDoc(docs, docType) == \E i \in 1..Len(docs) : docs[i].type = docType

\* documents.find((d) => d.type === docType)
FindDoc(docs, docType) ==
    docs[CHOOSE i \in 1..Len(docs) :
           /\ docs[i].type = docType
           /\ \A j \in 1..(i - 1) : docs[j].type # docType]

\* Categories whose upload zone (and hidden file input) is rendered.
Zones(scr, step, docs) ==
    IF scr = "form" /\ step = "documents"
    THEN {t \in DocTypeSet : ~HasDoc(docs, t)}
    ELSE {}

LastOf(types) ==
    DocTypes[CHOOSE i \in 1..Len(DocTypes) :
               /\ DocTypes[i] \in types
               /\ \A j \in (i + 1)..Len(DocTypes) : DocTypes[j] \notin types]

\* The one ref object shared by the three hidden inputs, after a commit that
\* changes the rendered zones from `before` to `after`: inputs that mount
\* attach in document order (the last one stays), an input that unmounts
\* resets the ref to null, inputs that stay mounted do not re-attach.
RefAfter(ref, before, after) ==
    IF after \ before # {} THEN LastOf(after \ before)
    ELSE IF before \ after # {} THEN NoInput
    ELSE ref

Commit(scr, step, docs) ==
    RefAfter(fileInputRef, Zones(screen, formStep, documents), Zones(scr, step, docs))

\* Array.from(files): the lists of files one drop event carries
FileLists == {<<DeedFile>>, <<DeedFile, PlanFile>>}

\* Array.from(files).forEach: one FileReader per file, each started with
\* readAsDataURL and completing later.
StartReads(files, docType) ==
    /\ uploads + Len(files) <= MaxUploads
    /\ reads' = reads \cup {[ord |-> uploads + i, type |-> docType,
                             name |-> files[i].name, data |-> files[i].data] :
                              i \in 1..Len(files)}
    /\ uploads' = uploads + Len(files)

handleDrop(files, docType) ==
    /\ docType \in Zones(screen, formStep, documents)
    /\ StartReads(files, docType)
    /\ UNCHANGED <<screen, formStep, loading, validationResult, property, pool,
                   documents, fileInputRef, clock, inflight, outcome>>

\* Click on the upload zone of category `zone`: opens the picker of the input
\* the shared ref points to; the chosen file reaches that input's onChange.
handleDocumentUpload(zone, file) ==
    /\ zone \in Zones(screen, formStep, documents)
    /\ fileInputRef # NoInput
    /\ StartReads(<<file>>, fileInputRef)
    /\ UNCHANGED <<screen, formStep, loading, validationResult, property, pool,
                   documents, fileInputRef, clock, inflight, outcome>>

\* The entry reader.onload builds from the read r at time `now`.
NewDocument(r, now) ==
    [id |-> toString(now), name |-> r.name, type |-> r.type, file |-> r.ord,
     preview |-> r.data]

\* Staging that replaces the whole stage by the new entry.
StageDocument_OnlyNew(prev, r, now) == <<NewDocument(r, now)>>

\* Staging without evicting the category's previous entry.
StageDocument_NoFilter(prev, r, now) == Append(prev, NewDocument(r, now))

\* setDocuments((prev) => [...prev.filter((d) => d.type !== docType), {...}])
StageDocument(prev, r, now) ==
    LET keep(d) == d.type # r.type
    IN  SelectSeq(prev, keep) \o <<NewDocument(r, now)>>

\* Date.now(): the millisecond of the previous reading (`clock`) or a later one
DateNow == {now \in {clock, clock + 1} : now <= MaxClock}

\* reader.onload of an outstanding read
ReaderOnload(r) ==
    /\ r \in reads
    /\ reads' = reads \ {r}
    /\ \E now \in DateNow :
         /\ clock' = now
         /\ documents' = StageDocument(documents, r, now)
    /\ fileInputRef' = Commit(screen, formStep, documents')
    /\ UNCHANGED <<screen, formStep, loading, validationResult, property, pool,
                   uploads, inflight, outcome>>

\* A failed read that evicts the entry of its category.
ReaderOnerror_Evicting(r) ==
    /\ r \in reads
    /\ reads' = reads \ {r}
    /\ LET keep(d) == d.type # r.type
       IN  documents' = SelectSeq(documents, keep)
    /\ fileInputRef' = Commit(screen, formStep, documents')
    /\ UNCHANGED <<screen, formStep, loading, validationResult, property, pool,
                   uploads, clock, inflight, outcome>>

\* A read that fails: no onerror handler is installed, nothing is staged.
ReaderOnerror(r) ==
    /\ r \in reads
    /\ reads' = reads \ {r}
    /\ UNCHANGED <<screen, formStep, loading, validationResult, property, pool,
                   documents, fileInputRef, uploads, clock, inflight, outcome>>

\* setDocuments((prev) => prev.filter((d) => d.id !== id))
RemoveById(prev, id) ==
    LET keep(d) == d.id # id
    IN  SelectSeq(prev, keep)

\* A remove button that is also shown on the review cards.
removeDocument_OnReview(docType) ==
    /\ screen = "form" /\ formStep \in {"documents", "review"}
    /\ HasDoc(documents, docType)
    /\ documents' = RemoveById(documents, FindDoc(documents, docType).id)
    /\ fileInputRef' = Commit(screen, formStep, documents')
    /\ UNCHANGED <<screen, formStep, loading, validationResult, property, pool,
                   reads, uploads, clock, inflight, outcome>>

\* The remove button of the entry shown for docType.
removeDocument(docType) ==
    /\ OnFormStep("documents")
    /\ HasDoc(documents, docType)
    /\ documents' = RemoveById(documents, FindDoc(documents, docType).id)
    /\ fileInputRef' = Commit(screen, formStep, documents')
    /\ UNCHANGED <<screen, formStep, loading, validationResult, property, pool,
                   reads, uploads, clock, inflight, outcome>>

(***************************************************************************)
(* Step Gate and Wizard Controller.                                        *)
(***************************************************************************)
\* !!s for a string s
NonEmpty(s) == s # ""

\* A property gate that forgets the lot size.
validateStep_WithoutLotSize ==
    CASE formStep = "property" ->
           /\ NonEmpty(property.address)
           /\ NonEmpty(property.zoning)
           /\ NonEmpty(property.propertyType)
      [] formStep = "pool" ->
           /\ NonEmpty(pool.poolType)
           /\ NonEmpty(pool.length)
           /\ NonEmpty(pool.width)
           /\ NonEmpty(pool.depth)
           /\ (IF pool.heating THEN NonEmpty(pool.heatingType) ELSE TRUE)
      [] formStep = "documents" -> Len(documents) >= 2
      [] formStep = "review" -> TRUE
      [] OTHER -> FALSE

\* A pool gate that requires a heating type whether or not heating is on.
validateStep_AlwaysHeatingType ==
    CASE formStep = "property" ->
           /\ NonEmpty(property.address)
           /\ NonEmpty(property.lotSize)
           /\ NonEmpty(property.zoning)
           /\ NonEmpty(property.propertyType)
      [] formStep = "pool" ->
           /\ NonEmpty(pool.poolType)
           /\ NonEmpty(pool.length)
           /\ NonEmpty(pool.width)
           /\ NonEmpty(pool.depth)
           /\ NonEmpty(pool.heatingType)
      [] formStep = "documents" -> Len(documents) >= 2
      [] formStep = "review" -> TRUE
      [] OTHER -> FALSE

\* A documents gate that asks for all three categories.
validateStep_AllDocuments ==
    CASE formStep = "property" ->
           /\ NonEmpty(property.address)
           /\ NonEmpty(property.lotSize)
           /\ NonEmpty(property.zoning)
           /\ NonEmpty(property.propertyType)
      [] formStep = "pool" ->
           /\ NonEmpty(pool.poolType)
           /\ NonEmpty(pool.length)
           /\ NonEmpty(pool.width)
           /\ NonEmpty(pool.depth)
           /\ (IF pool.heating THEN NonEmpty(pool.heatingType) ELSE TRUE)
      [] formStep = "documents" -> Len(documents) >= 3
      [] formStep = "review" -> TRUE
      [] OTHER -> FALSE

validateStep ==
    CASE formStep = "property" ->
           /\ NonEmpty(property.address)
           /\ NonEmpty(property.lotSize)
           /\ NonEmpty(property.zoning)
           /\ NonEmpty(property.propertyType)
      [] formStep = "pool" ->
           /\ NonEmpty(pool.poolType)
           /\ NonEmpty(pool.length)
           /\ NonEmpty(pool.width)
           /\ NonEmpty(pool.depth)
           /\ (IF pool.heating THEN NonEmpty(pool.heatingType) ELSE TRUE)
      [] formStep = "documents" -> Len(documents) >= 2
      [] formStep = "review" -> TRUE
      [] OTHER -> FALSE

\* Landing screen, Start Application: setScreen('form')
StartApplication ==
    /\ screen = "landing"
    /\ screen' = "form"
    /\ fileInputRef' = Commit(screen', formStep, documents)
    /\ UNCHANGED <<formStep, loading, validationResult, property, pool,
                   documents, reads, uploads, clock, inflight, outcome>>

\* A Next button that is never disabled.
goToNextStep_Ungated ==
    /\ screen = "form"
    /\ formStep # "review"
    /\ LET currentIndex == IndexOf(formStep)
       IN  formStep' = IF currentIndex < Len(steps)
                       THEN steps[currentIndex + 1] ELSE formStep
    /\ fileInputRef' = Commit(screen, formStep', documents)
    /\ UNCHANGED <<screen, loading, validationResult, property, pool,
                   documents, reads, uploads, clock, inflight, outcome>>

\* Next button: rendered on every step but review, disabled={!validateStep()}
goToNextStep ==
    /\ screen = "form"
    /\ formStep # "review"
    /\ validateStep
    /\ LET currentIndex == IndexOf(formStep)
       IN  formStep' = IF currentIndex < Len(steps)
                       THEN steps[currentIndex + 1] ELSE formStep
    /\ fileInputRef' = Commit(screen, formStep', documents)
    /\ UNCHANGED <<screen, loading, validationResult, property, pool,
                   documents, reads, uploads, clock, inflight, outcome>>

\* A Previous button behind the step gate.
goToPreviousStep_Gated ==
    /\ screen = "form"
    /\ formStep # "property"
    /\ validateStep
    /\ LET currentIndex == IndexOf(formStep)
       IN  formStep' = IF currentIndex > 1
                       THEN steps[currentIndex - 1] ELSE formStep
    /\ fileInputRef' = Commit(screen, formStep', documents)
    /\ UNCHANGED <<screen, loading, validationResult, property, pool,
                   documents, reads, uploads, clock, inflight, outcome>>

\* Previous button: rendered on every step but property
goToPreviousStep ==
    /\ screen = "form"
    /\ formStep # "property"
    /\ LET currentIndex == IndexOf(formStep)
       IN  formStep' = IF currentIndex > 1
                       THEN steps[currentIndex - 1] ELSE formStep
    /\ fileInputRef' = Commit(screen, formStep', documents)
    /\ UNCHANGED <<screen, loading, validationResult, property, pool,
                   documents, reads, uploads, clock, inflight, outcome>>

\* Edit buttons of the review cards: setFormStep(step)
ReviewEdit(step) ==
    /\ OnFormStep("review")
    /\ step \in {"property", "pool", "documents"}
    /\ formStep' = step
    /\ fileInputRef' = Commit(screen, formStep', documents)
    /\ UNCHANGED <<screen, loading, validationResult, property, pool,
                   documents, reads, uploads, clock, inflight, outcome>>

(***************************************************************************)
(* Validation Client.                                                      *)
(***************************************************************************)
AgentId == "68fd263d71c6b27d6c8eb80f"

YesNo(b) == IF b THEN "Yes" ELSE "No"

\* documents.map((d) => d.type)
DocumentTypes(docs) == [i \in 1..Len(docs) |-> docs[i].type]

\* The values interpolated into the message template, in template order.
Message(p, q, docs) ==
    [address |-> p.address, lotSize |-> p.lotSize, zoning |-> p.zoning,
     propertyType |-> p.propertyType, poolType |-> q.poolType,
     length |-> q.length, width |-> q.width, depth |-> q.depth,
     heating |-> IF q.heating THEN <<"Yes", q.heatingType>> ELSE <<"No">>,
     lighting |-> YesNo(q.lighting), divingBoard |-> YesNo(q.divingBoard),
     fence |-> YesNo(q.fence), documents |-> DocumentTypes(docs)]

\* The FormData posted to /api/agent
Request == [message |-> Message(property, pool, documents), agent_id |-> AgentId]

\* A submit control that is never disabled.
GenerateDisabled_Never == FALSE

\* Generate Application button: disabled={loading}
GenerateDisabled == loading

\* generateApplication up to `await fetch(...)`: posts Request
generateApplication ==
    /\ OnFormStep("review")
    /\ ~GenerateDisabled
    /\ loading' = TRUE
    /\ inflight' = inflight + 1
    /\ UNCHANGED <<screen, formStep, validationResult, property, pool,
                   documents, fileInputRef, reads, uploads, clock, outcome>>

\* Accepting any reply that carries a response, whatever its success flag.
Accepted_IgnoringSuccess(reply) == ~reply.threw /\ Truthy(reply.response)

\* Accepting any reply flagged successful, with or without a response.
Accepted_IgnoringResponse(reply) == ~reply.threw /\ reply.success

\* if (data.success && data.response)
Accepted(reply) == ~reply.threw /\ reply.success /\ Truthy(reply.response)

\* Storing the response body even when it has a result member.
ParseResult_BodyOnly(reply) == reply.response

\* data.response?.result || data.response
ParseResult(reply) == Or(Get(reply.response, "result"), reply.response)

\* A resolution that resets `loading` only after a stored result: the
\* setLoading(false) of the finally block moved into the success branch.
ResolveApplication_WithoutFinally(reply) ==
    /\ inflight > 0
    /\ inflight' = inflight - 1
    /\ IF ~reply.threw /\ reply.success /\ Truthy(reply.response)
       THEN /\ validationResult' =
                 Or(Get(reply.response, "result"), reply.response)
            /\ screen' = "results"
            /\ outcome' = "stored"
            /\ loading' = FALSE
       ELSE /\ outcome' = "alert"
            /\ UNCHANGED <<validationResult, screen, loading>>
    /\ fileInputRef' = Commit(screen', formStep, documents)
    /\ UNCHANGED <<formStep, property, pool, documents, reads, uploads, clock>>

\* A resolution that clears the stored result when the submit failed.
ResolveApplication_ClearingOnFailure(reply) ==
    /\ inflight > 0
    /\ inflight' = inflight - 1
    /\ IF ~reply.threw /\ reply.success /\ Truthy(reply.response)
       THEN /\ validationResult' =
                 Or(Get(reply.response, "result"), reply.response)
            /\ screen' = "results"
            /\ outcome' = "stored"
       ELSE /\ outcome' = "alert"
            /\ validationResult' = Null
            /\ UNCHANGED screen
    /\ loading' = FALSE
    /\ fileInputRef' = Commit(screen', formStep, documents)
    /\ UNCHANGED <<formStep, property, pool, documents, reads, uploads, clock>>

\* generateApplication from the resolution of the fetch to the end of finally
ResolveApplication(reply) ==
    /\ inflight > 0
    /\ inflight' = inflight - 1
    /\ IF Accepted(reply)
       THEN /\ validationResult' = ParseResult(reply)
            /\ screen' = "results"
            /\ outcome' = "stored"
       ELSE /\ outcome' = "alert"
            /\ UNCHANGED <<validationResult, screen>>
    /\ loading' = FALSE
    /\ fileInputRef' = Commit(screen', formStep, documents)
    /\ UNCHANGED <<formStep, property, pool, documents, reads, uploads, clock>>

(***************************************************************************)
(* Results screen.                                                         *)
(***************************************************************************)
\* The results view renders its buttons inside {validationResult && (...)};
\* rendering a value without the ValidationResult members throws.
ResultsRendered ==
    /\ screen = "results"
    /\ Truthy(validationResult)
    /\ IsValidationResult(validationResult)

\* validationResult.validation_status, "none" where there is no such field
StatusOf(v) ==
    IF v.t = "object" /\ "validation_status" \in DOMAIN v.o
    THEN v.o["validation_status"] ELSE "none"

\* A Download button shown with every rendered result.
DownloadOffered_AnyStatus == ResultsRendered

\* Download Application button:
\* {validationResult.validation_status === 'complete' && (<Button ...>)}
DownloadOffered ==
    /\ ResultsRendered
    /\ StatusOf(validationResult) = "complete"

\* An Edit Application that empties the Document Stage.
EditApplication_ClearingStage ==
    /\ ResultsRendered
    /\ screen' = "form"
    /\ formStep' = "property"
    /\ documents' = <<>>
    /\ fileInputRef' = Commit(screen', formStep', documents')
    /\ UNCHANGED <<loading, validationResult, property, pool,
                   reads, uploads, clock, inflight, outcome>>

\* Edit Application: setScreen('form'); setFormStep('property')
EditApplication ==
    /\ ResultsRendered
    /\ screen' = "form"
    /\ formStep' = "property"
    /\ fileInputRef' = Commit(screen', formStep', documents)
    /\ UNCHANGED <<loading, validationResult, property, pool, documents,
                   reads, uploads, clock, inflight, outcome>>

\* A Start New Application that keeps the stored result.
StartNewApplication_KeepingResult ==
    /\ ResultsRendered
    /\ screen' = "landing"
    /\ formStep' = "property"
    /\ fileInputRef' = Commit(screen', formStep', documents)
    /\ UNCHANGED <<loading, validationResult, property, pool, documents, reads,
                   uploads, clock, inflight, outcome>>

\* Start New Application:
\* setScreen('landing'); setFormStep('property'); setValidationResult(null)
StartNewApplication ==
    /\ ResultsRendered
    /\ screen' = "landing"
    /\ formStep' = "property"
    /\ validationResult' = Null
    /\ fileInputRef' = Commit(screen', formStep', documents)
    /\ UNCHANGED <<loading, property, pool, documents, reads, uploads, clock,
                   inflight, outcome>>

(***************************************************************************)
(* Specification.                                                          *)
(***************************************************************************)
\* The whole wizard, with few uploads, each of a single file; the stage with
\* more uploads and drops of several files is the subject of SpecStage.
Next ==
    \/ StartApplication
    \/ \E in \in PropertyInputs : handlePropertyChange(in[1], in[2])
    \/ \E in \in PoolInputs : handlePoolChange(in[1], in[2])
    \/ uploads < MaxWizardUploads
         /\ \E docType \in DocTypeSet : handleDrop(<<DeedFile>>, docType)
    \/ uploads < MaxWizardUploads
         /\ \E zone \in DocTypeSet : handleDocumentUpload(zone, DeedFile)
    \/ \E r \in reads : ReaderOnload(r)
    \/ \E r \in reads : ReaderOnerror(r)
    \/ \E docType \in DocTypeSet : removeDocument(docType)
    \/ goToNextStep
    \/ goToPreviousStep
    \/ \E step \in {"property", "pool", "documents"} : ReviewEdit(step)
    \/ generateApplication
    \/ \E reply \in Replies : ResolveApplication(reply)
    \/ EditApplication
    \/ StartNewApplication

Spec == Init /\ [][Next]_vars

\* The Document Stage: uploads by drop and by picker, read completions and
\* failures, removals, and the way forward through the steps, which mounts
\* and unmounts the upload zones.
NextStage ==
    \/ StartApplication
    \/ \E files \in FileLists, docType \in DocTypeSet : handleDrop(files, docType)
    \/ \E zone \in DocTypeSet : handleDocumentUpload(zone, DeedFile)
    \/ \E r \in reads : ReaderOnload(r)
    \/ \E r \in reads : ReaderOnerror(r)
    \/ \E docType \in DocTypeSet : removeDocument(docType)
    \/ goToNextStep

SpecStage == Init /\ [][NextStage]_vars

(***************************************************************************)
(* The Step Gate as a function of the Field Store and the Document Stage:  *)
(* the form is entered with field values and a stage drawn from bounded    *)
(* sets, and the Next and Previous buttons apply the gate.                 *)
(***************************************************************************)
\* Values of PropertyInfo; "" is a field left empty.
PropertyValues ==
    [address : {"", " ", "123 Oak Street"}, lotSize : {"", "0.5"},
     zoning : {"", "residential"}, propertyType : {"", "single-family"}]

\* Values of PoolInfo; "" is a field left empty (heatingType?: absent).
PoolValues ==
    [poolType : {"", "inground"}, length : {"", "20"}, width : {"", "40"},
     depth : {"", "8"}, heating : BOOLEAN, lighting : BOOLEAN,
     divingBoard : BOOLEAN, fence : BOOLEAN, heatingType : {"", "gas"}]

\* Stages with no, one and two documents, as reader.onload builds them.
StageSamples ==
    LET deed == NewDocument([ord |-> 1, type |-> "Property Deed",
                             name |-> DeedFile.name, data |-> DeedFile.data], 0)
        plan == NewDocument([ord |-> 2, type |-> "Site Plan",
                             name |-> PlanFile.name, data |-> PlanFile.data], 1)
    IN  {<<>>, <<deed>>, <<deed, plan>>}

InitGate ==
    /\ screen = "form"
    /\ formStep = "property"
    /\ loading = FALSE
    /\ validationResult = Null
    /\ property \in PropertyValues
    /\ pool \in PoolValues
    /\ documents \in StageSamples
    /\ fileInputRef = NoInput
    /\ reads = {}
    /\ uploads = Len(documents)
    /\ clock = 0
    /\ inflight = 0
    /\ outcome = "none"

NextGate ==
    \/ goToNextStep
    \/ goToPreviousStep

SpecGate == InitGate /\ [][NextGate]_vars

(***************************************************************************)
(* The Field Store under what the user can type: the inputs of the         *)
(* property and pool steps with the values their controls deliver, the     *)
(* whole navigation, and enough uploads and replies to pass the documents  *)
(* step and to reach the results screen.                                   *)
(***************************************************************************)
\* The fields edited through <Input type="number">.
NumericFields == {"lotSize", "length", "width", "depth"}

\* Texts that are valid floating-point numbers.
Numbers == {"0.5", "20", "40", "8"}

\* e.target.value of a number input holding `text`: the text when it is a
\* valid floating-point number, the empty string otherwise.
NumberInputValue(text) == IF text \in Numbers THEN text ELSE ""

\* Every control a plain text input.
TargetValue_AsTyped(field, text) == text

\* The value the control of `field` hands to its change handler.
TargetValue(field, text) ==
    IF field \in NumericFields THEN NumberInputValue(text) ELSE text

\* What the user types or selects in the property step.
PropertyTyped ==
    {<<"address", "">>, <<"address", " ">>, <<"address", "123 Oak Street">>,
     <<"lotSize", "">>, <<"lotSize", " ">>, <<"lotSize", "0.5">>,
     <<"zoning", "commercial">>, <<"zoning", "residential">>}

\* What the user types, selects or toggles in the pool step.
PoolTyped ==
    {<<"length", "">>, <<"length", " ">>, <<"length", "20">>,
     <<"heating", TRUE>>, <<"heating", FALSE>>,
     <<"heatingType", "electric">>, <<"heatingType", "gas">>}

\* A failed call and a successful one.
ReplySamples ==
    {[threw |-> TRUE, success |-> FALSE, response |-> Undefined],
     [threw |-> FALSE, success |-> TRUE,
      response |-> Obj([result |-> ResultComplete])]}

NextFields ==
    \/ StartApplication
    \/ \E in \in PropertyTyped :
         handlePropertyChange(in[1], TargetValue(in[1], in[2]))
    \/ \E in \in PoolTyped :
         handlePoolChange(in[1], TargetValue(in[1], in[2]))
    \/ uploads < MaxWizardUploads
         /\ \E docType \in {"Property Deed", "Site Plan"} :
              handleDrop(<<DeedFile>>, docType)
    \/ \E r \in reads : ReaderOnload(r)
    \/ goToNextStep
    \/ goToPreviousStep
    \/ \E step \in {"property", "pool", "documents"} : ReviewEdit(step)
    \/ generateApplication
    \/ \E reply \in ReplySamples : ResolveApplication(reply)
    \/ EditApplication
    \/ StartNewApplication

SpecFields == Init /\ [][NextFields]_vars

(***************************************************************************)
(* The submission round-trip next to the Document Stage: one more upload   *)
(* than the documents gate asks for, so that a read can still be           *)
(* outstanding when the application is generated.                          *)
(***************************************************************************)
NextSubmit ==
    \/ StartApplication
    \/ \E checked \in BOOLEAN : handlePoolChange("heating", checked)
    \/ uploads < MaxWizardUploads + 1
         /\ \E docType \in DocTypeSet : handleDrop(<<DeedFile>>, docType)
    \/ \E r \in reads : ReaderOnload(r)
    \/ \E docType \in DocTypeSet : removeDocument(docType)
    \/ goToNextStep
    \/ generateApplication
    \/ \E reply \in ReplySamples : ResolveApplication(reply)
    \/ EditApplication
    \/ StartNewApplication

SpecSubmit == Init /\ [][NextSubmit]_vars

\* The external call eventually resolves: with a reply or with an exception.
SpecLive ==
    /\ Init
    /\ [][NextSubmit]_vars
    /\ WF_vars(\E reply \in ReplySamples : ResolveApplication(reply))

TypeOK ==
    /\ screen \in Screens
    /\ formStep \in {steps[i] : i \in 1..Len(steps)}
    /\ loading \in BOOLEAN
    /\ fileInputRef \in DocTypeSet \cup {NoInput}
    /\ uploads \in 0..MaxUploads
    /\ clock \in 0..MaxClock
    /\ outcome \in {"none", "stored", "alert"}
    /\ inflight \in Nat

(***************************************************************************)
(* Properties of the submission round-trip.                                *)
(***************************************************************************)
\* The external call failed: a network/transport exception, or success:false.
Failed(reply) == reply.threw \/ ~reply.success

\* The reply is {success:true, response:{result:R}} with R a ValidationResult.
WellFormedReply(reply) ==
    /\ ~reply.threw
    /\ reply.success
    /\ reply.response.t = "object"
    /\ DOMAIN reply.response.o = {"result"}
    /\ IsValidationResult(reply.response.o["result"])

\* v is null or undefined
Nullish(v) == v.t \in {"null", "undefined"}

\* C1: a submit whose external call fails (exception) or whose reply has
\* success:false never moves the wizard to the results screen: when the call
\* resolves, screen is still form.
C1_FailedSubmitStaysOnForm ==
    [][inflight' < inflight => \A reply \in Replies :
         (ResolveApplication(reply) /\ Failed(reply)) => screen' = "form"]_vars

\* A failed submit has been reported and the wizard is on the form screen.
C1_Witness == outcome = "alert" /\ screen = "form" /\ inflight = 0

\* C2: when a submit fails, formStep is 'review' at the moment the failure is
\* reported, whatever the user did between issuing the submit and its
\* resolution.
C2_FailedSubmitOnReview ==
    [][inflight' < inflight => \A reply \in Replies :
         (ResolveApplication(reply) /\ Failed(reply)) => formStep' = "review"]_vars

\* C3 as stated: when a submit fails, validationResult is null afterwards,
\* for every history that precedes the submit.
C3_FailedSubmitLeavesNull ==
    [][inflight' < inflight => \A reply \in Replies :
         (ResolveApplication(reply) /\ Failed(reply))
           => Nullish(validationResult')]_vars

\* C3 as amended: when a submit fails, validationResult is left as it was
\* (null when no submit had succeeded before; the earlier result when one had
\* and the user came back through 'edit application').
C3_FailedSubmitKeepsResult ==
    [][inflight' < inflight => \A reply \in Replies :
         (ResolveApplication(reply) /\ Failed(reply))
           => validationResult' = validationResult]_vars

\* A failed submit has been reported while an earlier result is still stored.
C3_Witness ==
    /\ outcome = "alert"
    /\ inflight = 0
    /\ screen = "form"
    /\ IsValidationResult(validationResult)

\* C4: a submit whose reply is {success:true, response:{result:R}} with R a
\* well-formed ValidationResult moves the wizard to screen results with
\* validationResult equal to R unchanged, and isSubmitting false.
C4_SuccessStoresResultVerbatim ==
    [][inflight' < inflight => \A reply \in Replies :
         (ResolveApplication(reply) /\ WellFormedReply(reply))
           => /\ screen' = "results"
              /\ validationResult' = reply.response.o["result"]
              /\ loading' = FALSE]_vars

\* A result has been stored and the results screen is shown.
C4_Witness ==
    /\ screen = "results"
    /\ outcome = "stored"
    /\ validationResult = ResultIncomplete
    /\ ~loading

\* C5: response parsing is all-or-nothing: in every reachable state with
\* screen = results the stored validationResult is a complete, well-formed
\* ValidationResult.
C5_ResultsHoldWellFormedResult ==
    screen = "results" => IsValidationResult(validationResult)

\* C6: in every reachable state with screen = results validationResult is
\* non-null; validationResult becomes non-null only in a step where a submit
\* receives a successful reply, and 'start new application' makes it null.
C6_ResultLifecycle ==
    /\ [](screen = "results" => ~Nullish(validationResult))
    /\ [][(Nullish(validationResult) /\ ~Nullish(validationResult'))
            => \E reply \in Replies :
                 ResolveApplication(reply) /\ ~Failed(reply)]_vars
    /\ [][StartNewApplication => Nullish(validationResult')]_vars

\* The results screen is shown with the result a successful reply delivered.
C6_Witness ==
    /\ screen = "results"
    /\ validationResult = ResultComplete
    /\ outcome = "stored"

\* C7: at most one validation round-trip is outstanding at any time: while
\* isSubmitting is true no step sends a further request, whatever the user
\* does in between.
C7_OneRoundTripOutstanding ==
    /\ [](inflight <= 1 /\ (inflight = 1 <=> loading))
    /\ [][loading => inflight' <= inflight]_vars

\* A round-trip is outstanding and the user is on the review step, where the
\* submit control is.
C7_Witness == loading /\ inflight = 1 /\ OnFormStep("review")

\* C8: while a validation round-trip is outstanding no other action is
\* accepted: screen, formStep, Field Store and Document Stage do not change
\* until the round-trip has resolved.
C8_NoActionWhileSubmitting ==
    [][(inflight > 0 /\ inflight' = inflight)
         => UNCHANGED <<screen, formStep, property, pool, documents>>]_vars

(***************************************************************************)
(* Properties of the Document Stage.                                       *)
(***************************************************************************)
\* C9: in every reachable state the Document Stage holds at most one
\* document per category, so its count never exceeds the 3 categories.
C9_OneDocumentPerCategory ==
    /\ \A i, j \in 1..Len(documents) :
         i # j => documents[i].type # documents[j].type
    /\ Len(documents) <= Len(DocTypes)

\* Every category is staged after more uploads than there are categories.
C9_Witness ==
    /\ Len(documents) = Len(DocTypes)
    /\ uploads > Len(DocTypes)
    /\ reads = {}

\* The entries of `docs` for docType.
EntriesOf(docs, docType) == {i \in 1..Len(docs) : docs[i].type = docType}

\* C10: if two files are uploaded to the same category, the second after the
\* first, then once both reads have completed the stage holds exactly one
\* entry for that category and it carries the second upload's name and
\* content, whatever the order in which the two reads complete.  Stated on
\* the step that completes one of the two reads while the other's entry is
\* staged.
C10_SecondUploadWins ==
    [][reads' # reads => \A r \in reads :
         (HasDoc(documents, r.type) /\ ReaderOnload(r))
           => LET staged == FindDoc(documents, r.type)
                  second == IF staged.file > r.ord
                            THEN staged ELSE NewDocument(r, clock)
              IN  /\ Cardinality(EntriesOf(documents', r.type)) = 1
                  /\ FindDoc(documents', r.type).file = second.file
                  /\ FindDoc(documents', r.type).name = second.name
                  /\ FindDoc(documents', r.type).preview = second.preview]_vars

(***************************************************************************)
(* Properties of the Step Gate and of the Wizard Controller.               *)
(***************************************************************************)
\* Every field of the record `rec` named in `fields` is a non-empty string.
AllSet(rec, fields) == \A f \in fields : rec[f] # ""

\* C11: for every combination of property field values the step gate at
\* the property step passes if and only if address, lotSize, zoning and
\* propertyType are all non-empty, independently of the pool fields and of
\* the documents.
C11_PropertyGate ==
    OnFormStep("property")
      => (validateStep
            <=> AllSet(property, {"address", "lotSize", "zoning", "propertyType"}))

\* The property gate passes although the pool fields are incomplete and no
\* document is staged.
C11_Witness ==
    /\ OnFormStep("property")
    /\ validateStep
    /\ pool.length = ""
    /\ pool.heating /\ pool.heatingType = ""
    /\ documents = <<>>

\* C12: the step gate at the pool step passes if and only if poolType,
\* length, width and depth are non-empty and either heating is off or a
\* heating type is set; lighting, divingBoard and fence (and the property
\* fields and documents) never affect the outcome.
C12_PoolGate ==
    OnFormStep("pool")
      => (validateStep
            <=> /\ AllSet(pool, {"poolType", "length", "width", "depth"})
                /\ (~pool.heating \/ pool.heatingType # ""))

\* The pool gate passes with heating off and no heating type, and with
\* lighting, diving board and fence all off.
C12_Witness ==
    /\ OnFormStep("pool")
    /\ validateStep
    /\ ~pool.heating /\ pool.heatingType = ""
    /\ ~pool.lighting /\ ~pool.divingBoard /\ ~pool.fence

\* The categories that have an entry in the stage `docs`.
StagedTypes(docs) == {docs[i].type : i \in 1..Len(docs)}

C14_ForwardOnlyThroughGate ==
    [][/\ IndexOf(formStep') > IndexOf(formStep)
          => /\ goToNextStep
             /\ validateStep
             /\ IndexOf(formStep') = IndexOf(formStep) + 1
       /\ formStep = "review" => ~goToNextStep]_vars

\* The wizard has been stepped forward to the review step.
C14_Witness == OnFormStep("review")

\* C15: Start New Application on the results screen yields screen =
\* landing, formStep = property and validationResult = null.
C15_StartNewResets ==
    [][(StartNewApplication \/ (screen = "results" /\ screen' = "landing"))
         => /\ screen' = "landing"
            /\ formStep' = "property"
            /\ validationResult' = Null]_vars

\* Back on the landing screen after a stored result.
C15_Witness ==
    /\ screen = "landing"
    /\ outcome = "stored"
    /\ validationResult = Null

\* C16: every Start Application from the landing screen, also the one that
\* follows a Start New Application after edits and uploads, enters the
\* form at the property step with the Field Store at its defaults and the
\* Document Stage empty.
C16_StartApplicationReseeds ==
    [][(screen = "landing" /\ screen' = "form")
         => /\ formStep' = "property"
            /\ property' = DefaultProperty
            /\ pool' = DefaultPool
            /\ documents' = <<>>]_vars

\* C17: Edit Application on the results screen yields screen = form and
\* formStep = property, and leaves every field and every stage entry
\* unchanged.
C17_EditKeepsData ==
    [][(EditApplication \/ (screen = "results" /\ screen' = "form"))
         => /\ screen' = "form"
            /\ formStep' = "property"
            /\ UNCHANGED <<property, pool, documents>>]_vars

\* Back on the property step of the form with the result and two staged
\* documents still there.
C17_Witness ==
    /\ OnFormStep("property")
    /\ Truthy(validationResult)
    /\ Len(documents) >= 2

\* C18: the download is offered only on the results screen with a result
\* whose validation_status is 'complete', and never with 'incomplete'.
C18_DownloadOnlyWhenComplete ==
    /\ DownloadOffered
         => screen = "results" /\ StatusOf(validationResult) = "complete"
    /\ StatusOf(validationResult) = "incomplete" => ~DownloadOffered

\* The download is offered for a complete result.
C18_Witness == DownloadOffered /\ validationResult = ResultComplete

\* C19: no two entries of the Document Stage have the same id, also when
\* two file reads complete at the same clock instant.
C19_UniqueIds ==
    \A i, j \in 1..Len(documents) :
        i # j => documents[i].id # documents[j].id

\* C20: removeDocument deletes exactly the one entry whose id matches (the
\* entry of the category whose remove button was pressed) and leaves the
\* entries of the other categories unchanged.
C20_RemoveExactlyOne ==
    [][Len(documents') < Len(documents)
         => \A docType \in DocTypeSet :
              removeDocument(docType)
                => LET keep(d) == d.type # docType
                   IN  documents' = SelectSeq(documents, keep)]_vars

(***************************************************************************)
(* Properties of the upload zones and of concurrent and failing reads.     *)
(***************************************************************************)
\* C21: a file added through the upload zone of a category, dropped on it
\* or chosen in the picker its click opens, is read for that category and
\* for no other, whatever the other categories hold.
C21_ZoneTargetsItsCategory ==
    [][uploads' > uploads
         => \A zone \in DocTypeSet :
              (\/ handleDocumentUpload(zone, DeedFile)
               \/ \E files \in FileLists : handleDrop(files, zone))
                => \A r \in reads' \ reads : r.type = zone]_vars

\* The entries of `docs` outside the category docType.
OtherEntries(docs, docType) ==
    LET keep(d) == d.type # docType
    IN  SelectSeq(docs, keep)

\* The file of the read r is an entry of `docs`.
Staged(docs, r) == \E i \in 1..Len(docs) : docs[i].file = r.ord

\* C27: an upload whose read fails adds nothing and removes nothing: neither
\* issuing the upload nor the end of a read that does not stage its file
\* changes the Document Stage, in the targeted category or in any other.
C27_FailedReadChangesNothing ==
    [][reads' # reads
         => /\ uploads' > uploads => documents' = documents
            /\ \A r \in reads \ reads' :
                 (ReaderOnerror(r) \/ ~Staged(documents', r))
                   => documents' = documents]_vars

\* The only upload issued so far has ended and nothing is staged.
C27_Witness ==
    /\ OnFormStep("documents")
    /\ uploads = 1
    /\ reads = {}
    /\ documents = <<>>

\* C28: with reads for distinct categories outstanding together, each
\* completion stages its own file and leaves the entries of every other
\* category as they were, in every order of completion, so that all of
\* them are staged once the reads have completed.
C28_ConcurrentCategoriesKept ==
    [][reads' # reads
         => \A r \in reads :
              ReaderOnload(r)
                => /\ Staged(documents', r)
                   /\ OtherEntries(documents', r.type)
                        = OtherEntries(documents, r.type)]_vars

\* A later upload to one category is staged while an earlier upload to a
\* different category is still being read.
C28_Witness ==
    \E r \in reads : \E i \in 1..Len(documents) :
        /\ documents[i].file > r.ord
        /\ documents[i].type # r.type

(***************************************************************************)
(* Properties of the Field Store along the navigation.                     *)
(***************************************************************************)
PropertyFields == {"address", "lotSize", "zoning", "propertyType"}

\* C22: in every state of the form past the property step all four
\* property fields are non-empty, and the property fields change only
\* while the wizard is on the property step.
C22_PropertySettledOnceLeft ==
    /\ [](screen = "form" /\ formStep \in {"pool", "documents", "review"}
            => AllSet(property, PropertyFields))
    /\ [][property' # property => OnFormStep("property")]_vars

\* Past the property step with an edited address and zoning.
C22_Witness ==
    /\ OnFormStep("documents")
    /\ property.address = " "
    /\ property.zoning = "commercial"

\* C23: no step leaves the pool step, forward, backward or otherwise,
\* from a state where heating is on and no heating type is set.
C23_PoolLeftWithHeatingType ==
    [][(OnFormStep("pool") /\ ~(screen' = "form" /\ formStep' = "pool"))
         => ~(pool.heating /\ pool.heatingType = "")]_vars

\* The pool step was left backward with heating on and a heating type
\* chosen.
C23_Witness ==
    /\ OnFormStep("property")
    /\ pool.heating
    /\ pool.heatingType = "electric"

\* C24: Previous moves formStep back by exactly one position in the order
\* property, pool, documents, review, is available whatever the step gate
\* says, does nothing on the property step, and leaves the Field Store, the
\* Document Stage, the screen and validationResult unchanged.
C24_PreviousOneStepBack ==
    /\ []((screen = "form" /\ formStep # "property") => ENABLED goToPreviousStep)
    /\ [][goToPreviousStep
            => /\ IndexOf(formStep') = IndexOf(formStep) - 1
               /\ formStep # "property"
               /\ UNCHANGED <<property, pool, documents, screen,
                              validationResult>>]_vars

\* Back on the property step although the pool gate does not pass.
C24_Witness ==
    /\ OnFormStep("property")
    /\ pool.length = ""

\* Texts that are empty or hold only whitespace.
Blank == {"", " "}

C26_StoresChangeOnlyOnForm ==
    [][(property' # property \/ pool' # pool \/ documents' # documents)
         => /\ screen = "form"
            /\ UNCHANGED <<screen, formStep>>]_vars

\* C29: provided the external call eventually resolves (with a successful
\* reply, an unsuccessful one or an exception), every accepted submit is
\* eventually followed by a state where nothing is being submitted; a
\* failed submit leaves the wizard on the form screen, and from the review
\* step a new submit is accepted again.
C29_SubmitEndsAndCanBeRetried ==
    /\ loading ~> ~loading
    /\ [][inflight' < inflight
            => \A reply \in ReplySamples :
                 (ResolveApplication(reply) /\ Failed(reply))
                   => screen' = "form" /\ ~loading']_vars
    /\ []((OnFormStep("review") /\ ~loading) => ENABLED generateApplication)

\* A submit has failed and the review step accepts a new one.
C29_Witness ==
    /\ OnFormStep("review")
    /\ outcome = "alert"
    /\ ~loading
    /\ inflight = 0

\* The response has a member named `result`.
HasResult(response) == response.t = "object" /\ "result" \in DOMAIN response.o

\* C30: when the reply has success:true the stored payload is the `result`
\* member of the response if the response has one, and the response body
\* itself otherwise; a reply with success false, or without a response
\* member, is a failure whatever the shape of the rest.
C30_StoredPayloadByShape ==
    [][inflight' < inflight
         => \A reply \in Replies :
              ResolveApplication(reply)
                => /\ (~reply.threw /\ reply.success /\ outcome' = "stored")
                        => validationResult' =
                             IF HasResult(reply.response)
                             THEN reply.response.o["result"]
                             ELSE reply.response
                   /\ (reply.threw \/ ~reply.success
                         \/ reply.response = Undefined)
                        => /\ outcome' = "alert"
                           /\ UNCHANGED <<validationResult, screen>>]_vars

(***************************************************************************)
(* Properties of the request and of the states it is sent from.            *)
(***************************************************************************)
\* C31: the request is determined by the property fields, the pool fields
\* and the set of staged categories alone: states that agree on these (the
\* same categories staged in another order, other file names, ids or
\* contents) post the same request, always with the same agent id.
C31_RequestByFieldsAndCategorySet ==
    /\ [](Request.agent_id = "68fd263d71c6b27d6c8eb80f")
    /\ [][(/\ property' = property
           /\ pool' = pool
           /\ StagedTypes(documents') = StagedTypes(documents))
            => Request' = Request]_vars

\* The pool gate of validateStep, whatever the current step.
PoolGate ==
    /\ AllSet(pool, {"poolType", "length", "width", "depth"})
    /\ (pool.heating => pool.heatingType # "")

\* C32: in every state of the review step the Document Stage has at least
\* two entries, of two categories, so that no request lists fewer than two
\* document categories, however uploads, removals, navigation and read
\* completions interleave.
C32_ReviewHasTwoDocuments ==
    /\ [](OnFormStep("review")
            => /\ Len(documents) >= 2
               /\ Cardinality(StagedTypes(documents)) >= 2)
    /\ [][generateApplication
            => Len(Request.message.documents) >= 2]_vars

\* A request has been posted from the review step with two documents
\* staged.
C32_Witness ==
    /\ OnFormStep("review")
    /\ loading
    /\ Len(documents) = 2

\* C33: in every state of the documents and review steps the pool gate
\* holds (poolType, length, width and depth non-empty, and a heating type
\* set when heating is on), although Previous and the Edit buttons of the
\* review cards leave steps without consulting the gate.
C33_PoolGateHoldsPastPool ==
    (screen = "form" /\ formStep \in {"documents", "review"}) => PoolGate

\* On the review step with heating on and a heating type chosen.
C33_Witness ==
    /\ OnFormStep("review")
    /\ pool.heating
    /\ pool.heatingType = "electric"
    /\ PoolGate

====
